---- MODULE Spec2Model ----
(***************************************************************************)
(* Model of pkg/engine/engine.go (kenlabs/pando_client): the Engine that   *)
(* keeps a chain of metadata advertisements, its three persisted records   *)
(* (latest pointer, pushed list, check list), the foreground publish path  *)
(* and the background runCheck loop that reconciles the check list with    *)
(* the Pando index.                                                        *)
(*                                                                         *)
(* The foreground is one execution context (fgpc is its position inside    *)
(* PublishBytesData -> Publish -> PublishLocal); the background is the     *)
(* runCheck goroutine (bgpc).  A nil-pointer panic in either kills the     *)
(* whole process (crashed); Restart is New() on the same datastore.        *)
(***************************************************************************)
EXTENDS Integers, Sequences, FiniteSets, TLC

\* ------------------------------------------------------------------ bounds
NPayloads == 1      \* distinct byte payloads a caller may publish
MaxPublish == 2     \* PublishBytesData calls over the whole run
MaxRestarts == 1    \* process restarts (New on the same datastore)
MaxChain == 3       \* advertisements of the longest remote chain
MaxDepth == 3       \* largest depth a caller passes to Sync

\* --------------------------------------------------------------- constants
Undef == 0          \* cid.Undef
Payloads == 1..NPayloads

\* The kinds a run is configured with.  DataTransferPublisher takes the same
\* branch of newPublisher as HttpPublisher (a publisher, or an error).
PubKinds == {"NoPublisher", "HttpPublisher", "Unknown"}

VARIABLES
    pubKind,        \* e.options.pubKind
    dsLatest,       \* datastore value under sync/meta/latest (Undef: not found)
    dsList,         \* datastore value under sync/meta/list
    dsCheck,        \* datastore value under sync/meta/check
    lsys,           \* link-system store: the advertisements stored
    lastStored,     \* cid this process stored last (Undef: none yet)
    latestMeta,     \* e.latestMeta
    pushList,       \* e.pushList
    checkList,      \* e.checkList (the keys of the map)
    publisher,      \* e.publisher: "nil", "open" or "closed"
    pubRoot,        \* root the publisher last got by SetRoot/UpdateRoot
    closing,        \* TRUE once close(e.closing) ran
    checkMutex,     \* holder of e.checkMutex: "free", "fg" or "bg"
    fgpc,           \* position of the foreground call
    fgData,         \* PublishBytesData: data
    fgPrev,         \* PublishBytesData: prevLink
    fgC,            \* Publish/PublishLocal: c
    fgResult,       \* what the last foreground call returned
    bgpc,           \* position of the runCheck goroutine
    bgMap,          \* checkSyncStatus: keys of _checkMap not yet ranged over
    bgC,            \* checkSyncStatus: c of the current iteration
    bgLast,         \* checkSyncStatus: how the query of this iteration ended
    crashed,        \* "none", or the nil dereference that killed the process
    pando,          \* the Pando index: "flaky" or "confirming"
    writeFailed,    \* a datastore Put failed in this process lifetime
    queriesAfterClose, \* inclusion queries issued since close(e.closing)
    epoch,          \* number of restarts so far
    calls           \* number of PublishBytesData calls so far

VARIABLES
    chainLen,       \* advertisements of the chain the remote peer holds
    sypc,           \* position of the Sync/SyncWithProvider/CatCid call
    syOp,           \* the call under way or returned last
    syStart,        \* Sync: syncCid; CatCid: c
    syDepth,        \* Sync: depth
    syEnd,          \* Sync: endCid (Undef: none)
    syCur,          \* the node the remote traversal is at (Undef: past the end)
    syRes,          \* Sync: syncRes, what blockHook has appended
    syHonest,       \* every block so far was the one the traversal asked for
    syOut           \* what the call returned

syncVars == <<chainLen, sypc, syOp, syStart, syDepth, syEnd, syCur, syRes,
              syHonest, syOut>>

vars == <<pubKind, dsLatest, dsList, dsCheck, lsys, lastStored, latestMeta, pushList,
          checkList, publisher, pubRoot, closing, checkMutex, fgpc, fgData,
          fgPrev, fgC, fgResult, bgpc, bgMap, bgC, bgLast, crashed, pando,
          writeFailed, queriesAfterClose, epoch, calls, syncVars>>

dsVars == <<dsLatest, dsList, dsCheck>>
memVars == <<latestMeta, pushList, checkList>>
fgLocals == <<fgData, fgPrev, fgC>>
bgVars == <<bgpc, bgMap, bgC, bgLast, queriesAfterClose>>
envVars == <<pubKind, pando, epoch>>

\* ----------------------------------------------------------------- helpers
Last(s) == s[Len(s)]

IsPrefix(s, t) == Len(s) <= Len(t) /\ \A i \in 1..Len(s) : s[i] = t[i]

Range(s) == {s[i] : i \in 1..Len(s)}

\* The content id of an advertisement: a deterministic, injective function of
\* its payload and previous link (lsys.Store hashes the encoded node).
CidOf(data, prev) == prev * NPayloads + data

\* What a foreground call returns: (cid, error), the error as "is not nil".
NoResult == [id |-> Undef, err |-> FALSE]
Result(op, id, err) == [id |-> id, err |-> err # "none"]

Alive == crashed = "none"

\* -------------------------------------------------------------------- Init
\* What a Sync, SyncWithProvider or CatCid call returns: the cid list, the
\* error as "is not nil", the payload bytes (NoPayload: nil).
NoPayload == 0
NoOut == [ids |-> <<>>, err |-> FALSE, payload |-> NoPayload]

\* No Sync, SyncWithProvider or CatCid call has been made.
SyncIdle ==
    /\ sypc = "idle"
    /\ syOp = "none"
    /\ syStart = Undef
    /\ syDepth = 0
    /\ syEnd = Undef
    /\ syCur = Undef
    /\ syRes = <<>>
    /\ syHonest = TRUE
    /\ syOut = NoOut

\* The engine New returns on an empty datastore.
EngineInit ==
    /\ pubKind \in PubKinds
    /\ dsLatest = Undef
    /\ dsList = <<>>
    /\ dsCheck = {}
    /\ lsys = {}
    /\ lastStored = Undef
    /\ latestMeta = Undef
    /\ pushList = <<>>
    /\ checkList = {}
    /\ publisher = "nil"
    /\ pubRoot = Undef
    /\ closing = FALSE
    /\ checkMutex = "free"
    /\ fgpc = "idle"
    /\ fgData = 0
    /\ fgPrev = Undef
    /\ fgC = Undef
    /\ fgResult = NoResult
    /\ bgpc = "notstarted"
    /\ bgMap = {}
    /\ bgC = Undef
    /\ bgLast = "none"
    /\ crashed = "none"
    /\ pando = "flaky"
    /\ writeFailed = FALSE
    /\ queriesAfterClose = 0
    /\ epoch = 0
    /\ calls = 0

Init ==
    /\ EngineInit
    /\ SyncIdle
    /\ chainLen = 0

\* ------------------------------------------------------------- foreground
\* Return from the foreground call with (id, err); its locals are gone.
FgReturn(op, id, err) ==
    /\ fgpc' = "idle"
    /\ fgResult' = Result(op, id, err)
    /\ fgData' = 0
    /\ fgPrev' = Undef
    /\ fgC' = Undef

\* PublishBytesData, lines 298-305: prevLink from e.latestMeta.
PrevLinkOf(latest) == IF latest # Undef THEN latest ELSE Undef

\* PublishBytesData, lines 297-312: NewMetaWithBytesPayload (which may
\* fail), then Publish.
PublishBytesData(data, metaOk) ==
    /\ Alive /\ fgpc = "idle" /\ calls < MaxPublish
    /\ calls' = calls + 1
    /\ IF metaOk
         THEN /\ fgpc' = "store"
              /\ fgResult' = NoResult
              /\ fgData' = data
              /\ fgPrev' = PrevLinkOf(latestMeta)
              /\ fgC' = Undef
         ELSE FgReturn("publish", Undef, "meta")
    /\ UNCHANGED <<dsVars, memVars, lsys, lastStored, publisher, pubRoot, closing,
                   checkMutex, bgVars, crashed, writeFailed, envVars>>
    /\ UNCHANGED syncVars

\* PublishLocal, lines 237-248: adv.ToNode and lsys.Store.
PublishLocalStore(ok) ==
    /\ Alive /\ fgpc = "store"
    /\ IF ok
         THEN /\ fgC' = CidOf(fgData, fgPrev)
              /\ lsys' = lsys \cup {[cid |-> CidOf(fgData, fgPrev),
                                    prev |-> fgPrev]}
              /\ lastStored' = CidOf(fgData, fgPrev)
              /\ fgpc' = "latest"
              /\ UNCHANGED <<fgResult, fgData, fgPrev>>
         ELSE /\ FgReturn("publish", Undef, "store")
              /\ UNCHANGED <<lsys, lastStored>>
    /\ UNCHANGED <<dsVars, memVars, publisher, pubRoot, closing,
                   checkMutex, bgVars, crashed, writeFailed, envVars, calls>>
    /\ UNCHANGED syncVars

\* Mutant: e.latestMeta is assigned only once the Put has succeeded.
updateLatestMeta_SetAfterPut(c, putOk) ==
    IF c = Undef
      THEN /\ FgReturn("publish", Undef, "latest")
           /\ UNCHANGED <<latestMeta, dsLatest, writeFailed>>
      ELSE IF putOk
             THEN /\ latestMeta' = c
                  /\ dsLatest' = c
                  /\ fgpc' = "list"
                  /\ UNCHANGED <<fgResult, fgLocals, writeFailed>>
             ELSE /\ FgReturn("publish", Undef, "latest")
                  /\ writeFailed' = TRUE
                  /\ UNCHANGED <<latestMeta, dsLatest>>

\* updateLatestMeta, lines 263-269, and its caller's error return.
updateLatestMeta(c, putOk) ==
    IF c = Undef
      THEN /\ FgReturn("publish", Undef, "latest")
           /\ UNCHANGED <<latestMeta, dsLatest, writeFailed>>
      ELSE /\ latestMeta' = c
           /\ IF putOk
                THEN /\ dsLatest' = c
                     /\ fgpc' = "list"
                     /\ UNCHANGED <<fgResult, fgLocals, writeFailed>>
                ELSE /\ FgReturn("publish", Undef, "latest")
                     /\ writeFailed' = TRUE
                     /\ UNCHANGED dsLatest

\* PublishLocal, lines 250-253.
PublishLocalLatest(putOk) ==
    /\ Alive /\ fgpc = "latest"
    /\ updateLatestMeta(fgC, putOk)
    /\ UNCHANGED <<dsList, dsCheck, pushList, checkList, lsys, lastStored,
                   publisher, pubRoot, closing, checkMutex, bgVars, crashed,
                   envVars, calls>>
    /\ UNCHANGED syncVars

\* Mutant: the list is written to the datastore but e.pushList is not set.
updatePushedList_NoAssign(list, putOk) ==
    IF Len(list) = 0
      THEN /\ FgReturn("publish", Undef, "list")
           /\ UNCHANGED <<pushList, dsList, writeFailed>>
      ELSE /\ UNCHANGED pushList
           /\ IF putOk
                THEN /\ dsList' = list
                     /\ fgpc' = "announce"
                     /\ UNCHANGED <<fgResult, fgLocals, writeFailed>>
                ELSE /\ FgReturn("publish", Undef, "list")
                     /\ writeFailed' = TRUE
                     /\ UNCHANGED dsList

\* Mutant: e.pushList is set but the list is never written to the datastore.
updatePushedList_NoPut(list, putOk) ==
    IF Len(list) = 0
      THEN /\ FgReturn("publish", Undef, "list")
           /\ UNCHANGED <<pushList, dsList, writeFailed>>
      ELSE /\ pushList' = list
           /\ fgpc' = "announce"
           /\ UNCHANGED <<dsList, fgResult, fgLocals, writeFailed>>

\* updatePushedList, lines 271-281, and its caller's error return.
updatePushedList(list, putOk) ==
    IF Len(list) = 0
      THEN /\ FgReturn("publish", Undef, "list")
           /\ UNCHANGED <<pushList, dsList, writeFailed>>
      ELSE /\ pushList' = list
           /\ IF putOk
                THEN /\ dsList' = list
                     /\ fgpc' = "announce"
                     /\ UNCHANGED <<fgResult, fgLocals, writeFailed>>
                ELSE /\ FgReturn("publish", Undef, "list")
                     /\ writeFailed' = TRUE
                     /\ UNCHANGED dsList

\* Mutant: the new list holds the new cid alone.
NewPushList_Replace(list, c) == <<c>>

\* PublishLocal, line 254: the list handed to updatePushedList.
NewPushList(list, c) == Append(list, c)

\* PublishLocal, lines 254-260.
PublishLocalList(putOk) ==
    /\ Alive /\ fgpc = "list"
    /\ updatePushedList(NewPushList(pushList, fgC), putOk)
    /\ UNCHANGED <<dsLatest, dsCheck, latestMeta, checkList, lsys, lastStored,
                   publisher, pubRoot, closing, checkMutex, bgVars, crashed,
                   envVars, calls>>
    /\ UNCHANGED syncVars

\* Publish, line 211: is there a publisher to announce on.
HasPublisher(p) == p # "nil"

\* Mutant: a failed UpdateRoot is ignored and the call goes on to insert.
PublishAnnounce_IgnoreError(ok) ==
    /\ Alive /\ fgpc = "announce"
    /\ IF HasPublisher(publisher)
         THEN /\ IF ok THEN pubRoot' = fgC ELSE UNCHANGED pubRoot
              /\ fgpc' = "insert"
              /\ UNCHANGED <<fgResult, fgLocals>>
         ELSE /\ FgReturn("publish", fgC, "none")
              /\ UNCHANGED pubRoot
    /\ UNCHANGED <<dsVars, memVars, lsys, lastStored, publisher, closing,
                   checkMutex, bgVars, crashed, writeFailed, envVars, calls>>
    /\ UNCHANGED syncVars

\* Publish, lines 210-218 and 229-232: announce only with a publisher.
PublishAnnounce(ok) ==
    /\ Alive /\ fgpc = "announce"
    /\ IF HasPublisher(publisher)
         THEN IF ok
                THEN /\ pubRoot' = fgC
                     /\ fgpc' = "insert"
                     /\ UNCHANGED <<fgResult, fgLocals>>
                ELSE /\ FgReturn("publish", Undef, "announce")
                     /\ UNCHANGED pubRoot
         ELSE /\ FgReturn("publish", fgC, "none")
              /\ UNCHANGED pubRoot
    /\ UNCHANGED <<dsVars, memVars, lsys, lastStored, publisher, closing,
                   checkMutex, bgVars, crashed, writeFailed, envVars, calls>>
    /\ UNCHANGED syncVars

\* Publish, lines 220-222: insert c into the check list.
InsertCheck(list, c) == list \cup {c}

\* Publish, lines 219-223: the insertion under the mutex.
PublishInsert ==
    /\ Alive /\ fgpc = "insert" /\ checkMutex = "free"
    /\ checkList' = InsertCheck(checkList, fgC)
    /\ fgpc' = "persist"
    /\ UNCHANGED <<dsVars, latestMeta, pushList, lsys, lastStored, fgLocals, fgResult,
                   publisher, pubRoot, closing, checkMutex, bgVars, crashed,
                   writeFailed, envVars, calls>>
    /\ UNCHANGED syncVars

\* persistCheckList, lines 286-289: an empty list is not written.
SkipPersist(list) == list = {}

\* persistCheckList called by Publish, lines 224 and 284-289: lock.
PublishPersistLock ==
    /\ Alive /\ fgpc = "persist" /\ checkMutex = "free"
    /\ IF SkipPersist(checkList)
         THEN /\ FgReturn("publish", fgC, "none")
              /\ UNCHANGED checkMutex
         ELSE /\ checkMutex' = "fg"
              /\ fgpc' = "put"
              /\ UNCHANGED <<fgResult, fgLocals>>
    /\ UNCHANGED <<dsVars, memVars, lsys, lastStored, publisher, pubRoot,
                   closing, bgVars, crashed, writeFailed, envVars, calls>>
    /\ UNCHANGED syncVars

\* persistCheckList, lines 290-294: Put under the mutex, unlock on return;
\* Publish, lines 225-232.
PublishPersistPut(putOk) ==
    /\ Alive /\ fgpc = "put" /\ checkMutex = "fg"
    /\ checkMutex' = "free"
    /\ IF putOk
         THEN /\ dsCheck' = checkList
              /\ FgReturn("publish", fgC, "none")
              /\ UNCHANGED writeFailed
         ELSE /\ FgReturn("publish", Undef, "persist")
              /\ writeFailed' = TRUE
              /\ UNCHANGED dsCheck
    /\ UNCHANGED <<dsLatest, dsList, memVars, lsys, lastStored, publisher,
                   pubRoot, closing, bgVars, crashed, envVars, calls>>
    /\ UNCHANGED syncVars

\* getLatestMetaCid, lines 141-151: ErrNotFound reads as cid.Undef.
getLatestMetaCid == dsLatest

\* PublishLatest, lines 184-201.  e.publisher.UpdateRoot on the nil
\* interface value is a nil dereference.
PublishLatest(getOk, ok) ==
    /\ Alive /\ fgpc = "idle"
    /\ IF ~getOk
         THEN /\ FgReturn("publishLatest", Undef, "get")
              /\ UNCHANGED <<pubRoot, crashed>>
         ELSE IF getLatestMetaCid = Undef
         THEN /\ FgReturn("publishLatest", Undef, "nothing")
              /\ UNCHANGED <<pubRoot, crashed>>
         ELSE IF publisher = "nil"
         THEN /\ crashed' = "UpdateRoot on nil publisher"
              /\ UNCHANGED <<pubRoot, fgpc, fgResult, fgLocals>>
         ELSE IF ok
         THEN /\ pubRoot' = getLatestMetaCid
              /\ FgReturn("publishLatest", getLatestMetaCid, "none")
              /\ UNCHANGED crashed
         ELSE /\ FgReturn("publishLatest", Undef, "announce")
              /\ UNCHANGED <<pubRoot, crashed>>
    /\ UNCHANGED <<dsVars, memVars, lsys, lastStored, publisher, closing,
                   checkMutex, bgVars, writeFailed, envVars, calls>>
    /\ UNCHANGED syncVars

\* newPublisher, lines 118-139: what Start assigns to e.publisher, and
\* whether it returned an error.  NoPublisher yields (nil, nil).
newPublisher(kind, built) ==
    CASE kind = "NoPublisher" -> [publisher |-> "nil", err |-> FALSE]
      [] kind \in {"DataTransferPublisher", "HttpPublisher"} ->
            IF built THEN [publisher |-> "open", err |-> FALSE]
                     ELSE [publisher |-> "nil", err |-> TRUE]
      [] OTHER -> [publisher |-> "nil", err |-> TRUE]

\* Start, lines 93-116.  SetRoot is called whenever a latest cid is stored,
\* also on the nil publisher.
Start(built, getOk, setOk) ==
    /\ Alive /\ fgpc = "idle" /\ bgpc = "notstarted"
    /\ LET p == newPublisher(pubKind, built) IN
       /\ publisher' = p.publisher
       /\ IF p.err
            THEN /\ FgReturn("start", Undef, "publisher")
                 /\ UNCHANGED <<pubRoot, bgpc, crashed>>
            ELSE IF ~getOk
            THEN /\ FgReturn("start", Undef, "get")
                 /\ UNCHANGED <<pubRoot, bgpc, crashed>>
            ELSE IF getLatestMetaCid # Undef /\ p.publisher = "nil"
            THEN /\ crashed' = "SetRoot on nil publisher"
                 /\ UNCHANGED <<pubRoot, bgpc, fgpc, fgResult, fgLocals>>
            ELSE IF getLatestMetaCid # Undef /\ ~setOk
            THEN /\ FgReturn("start", Undef, "setroot")
                 /\ UNCHANGED <<pubRoot, bgpc, crashed>>
            ELSE /\ pubRoot' = getLatestMetaCid
                 /\ bgpc' = "select"
                 /\ FgReturn("start", Undef, "none")
                 /\ UNCHANGED crashed
    /\ UNCHANGED <<dsVars, memVars, lsys, lastStored, closing, checkMutex,
                   bgMap, bgC, bgLast, queriesAfterClose, writeFailed,
                   envVars, calls>>
    /\ UNCHANGED syncVars

\* Shutdown, lines 520-529: close the publisher if any, close e.closing.
Shutdown(closeOk) ==
    /\ Alive /\ fgpc = "idle" /\ ~closing
    /\ closing' = TRUE
    /\ IF publisher # "nil"
         THEN /\ publisher' = "closed"
              /\ FgReturn("shutdown", Undef, IF closeOk THEN "none" ELSE "close")
         ELSE /\ UNCHANGED publisher
              /\ FgReturn("shutdown", Undef, "none")
    /\ UNCHANGED <<dsVars, memVars, lsys, lastStored, pubRoot, checkMutex,
                   bgVars, crashed, writeFailed, envVars, calls>>
    /\ UNCHANGED syncVars

\* ------------------------------------------------------------- background
\* A response of the Pando API to GET /metadata/inclusion?cid=c.
Statuses == {200, 204, 500}
Bodies == {"garbage", "nodata", "notin", "in"}
Responses ==
    {[neterr |-> TRUE, status |-> 0, body |-> "garbage"]} \cup
    [neterr : {FALSE}, status : Statuses, body : Bodies]

\* handleResError, lines 531-544: TRUE when it returns an error.
handleResError(res) ==
    \/ res.neterr
    \/ res.status >= 400
    \/ res.status # 200

\* json.Unmarshal into inclusionResJson, lines 436-447: "err" for a body that
\* does not parse, "nil" when Data is absent, else Data.InPando.
Unmarshal(body) ==
    CASE body = "garbage" -> "err"
      [] body = "nodata" -> "nil"
      [] body = "in" -> "true"
      [] body = "notin" -> "false"

\* How one iteration of checkSyncStatus ends for a response, lines 431-458.
QueryOutcome(res) ==
    IF handleResError(res) THEN "error"
    ELSE IF Unmarshal(res.body) = "err" THEN "unparseable"
    ELSE IF Unmarshal(res.body) = "nil" THEN "panic"
    ELSE IF Unmarshal(res.body) = "true" THEN "included"
    ELSE "notincluded"

\* What the index may answer: anything while flaky, and a well-formed
\* "included" once it confirms.
Answers ==
    IF pando = "confirming"
      THEN {[neterr |-> FALSE, status |-> 200, body |-> "in"]}
      ELSE Responses

\* Mutant: the tick does not test for an empty check list.
RunCheckTick_NoEmptyTest ==
    /\ Alive /\ bgpc = "select" /\ checkMutex = "free"
    /\ bgMap' = checkList
    /\ bgpc' = "check"
    /\ UNCHANGED <<dsVars, memVars, lsys, lastStored, fgpc, fgLocals, fgResult, publisher,
                   pubRoot, closing, checkMutex, bgC, bgLast, queriesAfterClose,
                   crashed, writeFailed, envVars, calls>>
    /\ UNCHANGED syncVars

\* runCheck, lines 400-411: a tick; copy the check list under the mutex, or
\* continue when it is empty.
RunCheckTick ==
    /\ Alive /\ bgpc = "select" /\ checkMutex = "free"
    /\ IF Cardinality(checkList) = 0
         THEN UNCHANGED <<bgpc, bgMap>>
         ELSE /\ bgMap' = checkList
              /\ bgpc' = "check"
    /\ UNCHANGED <<dsVars, memVars, lsys, lastStored, fgpc, fgLocals, fgResult, publisher,
                   pubRoot, closing, checkMutex, bgC, bgLast, queriesAfterClose,
                   crashed, writeFailed, envVars, calls>>
    /\ UNCHANGED syncVars

\* runCheck, lines 397-399: the select takes the closing case.
RunCheckQuit ==
    /\ Alive /\ bgpc = "select" /\ closing
    /\ bgpc' = "stopped"
    /\ UNCHANGED <<dsVars, memVars, lsys, lastStored, fgpc, fgLocals, fgResult, publisher,
                   pubRoot, closing, checkMutex, bgMap, bgC, bgLast,
                   queriesAfterClose, crashed, writeFailed, envVars, calls>>
    /\ UNCHANGED syncVars

\* Mutant: the loop over the batch never looks at e.closing.
SeesClosing_Never == FALSE

\* checkSyncStatus, lines 425-429: the non-blocking test of e.closing.
SeesClosing == closing

\* checkSyncStatus, lines 423-429: the next key of the map (in any order) and
\* the test of e.closing; past the test the query is about to be sent.
CheckSyncStatusNext ==
    /\ Alive /\ bgpc = "check"
    /\ \E c \in bgMap :
         /\ bgMap' = bgMap \ {c}
         /\ IF SeesClosing
              THEN /\ bgpc' = "persist"
                   /\ bgC' = Undef
              ELSE /\ bgC' = c
                   /\ bgpc' = "query"
    /\ bgLast' = "none"
    /\ UNCHANGED <<dsVars, memVars, lsys, lastStored, fgpc, fgLocals, fgResult, publisher,
                   pubRoot, closing, checkMutex, queriesAfterClose,
                   crashed, writeFailed, envVars, calls>>
    /\ UNCHANGED syncVars

\* Mutant: any answer that parses deletes the id, InPando or not.
ShouldDelete_AnyAnswer(outcome) == outcome \in {"included", "notincluded"}

\* checkSyncStatus, line 454: only an id reported in Pando is deleted.
ShouldDelete(outcome) == outcome = "included"

\* Mutant: the check list is replaced by what is left of the batch's copy.
DeleteCheck_KeepCopy(list, c) == bgMap

\* Mutant: the id is deleted from the batch copy, not from e.checkList.
DeleteCheck_FromCopy(list, c) == list

\* checkSyncStatus, lines 455-457: delete from e.checkList under the mutex.
DeleteCheck(list, c) == list \ {c}

\* checkSyncStatus, lines 431-458: the query for bgC and what is done with
\* its response.  inclusion.InPando on a nil inclusion is a nil dereference.
\* The delete takes the mutex, so an answer that deletes is handled once the
\* mutex is free.
CheckSyncStatusQuery(res) ==
    /\ Alive /\ bgpc = "query"
    /\ ShouldDelete(QueryOutcome(res)) => checkMutex = "free"
    /\ bgLast' = QueryOutcome(res)
    /\ queriesAfterClose' = IF closing /\ queriesAfterClose < 2
                               THEN queriesAfterClose + 1
                               ELSE queriesAfterClose
    /\ IF QueryOutcome(res) = "panic"
         THEN /\ crashed' = "InPando of nil inclusion"
              /\ UNCHANGED <<checkList, bgpc>>
         ELSE /\ checkList' = IF ShouldDelete(QueryOutcome(res))
                                THEN DeleteCheck(checkList, bgC)
                                ELSE checkList
              /\ bgpc' = IF bgMap = {} THEN "persist" ELSE "check"
              /\ UNCHANGED crashed
    /\ UNCHANGED <<dsVars, latestMeta, pushList, lsys, lastStored, fgpc, fgLocals, fgResult,
                   publisher, pubRoot, closing, checkMutex, bgMap, bgC,
                   writeFailed, envVars, calls>>
    /\ UNCHANGED syncVars

\* persistCheckList called by runCheck, lines 414 and 284-289.
RunCheckPersistLock ==
    /\ Alive /\ bgpc = "persist" /\ checkMutex = "free"
    /\ IF SkipPersist(checkList)
         THEN /\ bgpc' = "select"
              /\ UNCHANGED checkMutex
         ELSE /\ checkMutex' = "bg"
              /\ bgpc' = "put"
    /\ bgC' = Undef
    /\ bgLast' = "none"
    /\ UNCHANGED <<dsVars, memVars, lsys, lastStored, fgpc, fgLocals, fgResult, publisher,
                   pubRoot, closing, bgMap, queriesAfterClose,
                   crashed, writeFailed, envVars, calls>>
    /\ UNCHANGED syncVars

\* persistCheckList, lines 290-294, and runCheck, lines 415-417: a failed Put
\* is logged.
RunCheckPersistPut(putOk) ==
    /\ Alive /\ bgpc = "put" /\ checkMutex = "bg"
    /\ checkMutex' = "free"
    /\ bgpc' = "select"
    /\ IF putOk
         THEN dsCheck' = checkList /\ UNCHANGED writeFailed
         ELSE writeFailed' = TRUE /\ UNCHANGED dsCheck
    /\ UNCHANGED <<dsLatest, dsList, memVars, lsys, lastStored, fgpc, fgLocals, fgResult,
                   publisher, pubRoot, closing, bgMap, bgC, bgLast,
                   queriesAfterClose, crashed, envVars, calls>>
    /\ UNCHANGED syncVars

\* ------------------------------------------------------------ environment
\* The index starts to report every id as included on every later query.
PandoConfirms ==
    /\ pando = "flaky"
    /\ pando' = "confirming"
    /\ UNCHANGED <<pubKind, epoch, dsVars, memVars, lsys, lastStored, fgpc, fgLocals,
                   fgResult, publisher, pubRoot, closing, checkMutex, bgVars,
                   crashed, writeFailed, calls>>
    /\ UNCHANGED syncVars

\* The process ends (killed, or dead of a panic) and a new one runs New on
\* the same datastore: initInfo, lines 71-91, loads the three records.
initInfo ==
    /\ latestMeta' = getLatestMetaCid
    /\ pushList' = dsList
    /\ checkList' = dsCheck

Restart ==
    /\ epoch < MaxRestarts
    /\ epoch' = epoch + 1
    /\ initInfo
    /\ publisher' = "nil"
    /\ pubRoot' = Undef
    /\ closing' = FALSE
    /\ checkMutex' = "free"
    /\ fgpc' = "idle"
    /\ fgData' = 0
    /\ fgPrev' = Undef
    /\ fgC' = Undef
    /\ fgResult' = NoResult
    /\ bgpc' = "notstarted"
    /\ bgMap' = {}
    /\ bgC' = Undef
    /\ bgLast' = "none"
    /\ crashed' = "none"
    /\ writeFailed' = FALSE
    /\ queriesAfterClose' = 0
    /\ lastStored' = Undef
    /\ UNCHANGED <<pubKind, pando, dsVars, lsys, calls>>
    /\ UNCHANGED syncVars

\* ------------------------------------------------------- Sync and CatCid
\* Everything of the engine that Sync, SyncWithProvider and CatCid leave
\* alone; they add to the link system only.
engVars == <<dsVars, memVars, lastStored, publisher, pubRoot, closing,
             checkMutex, fgpc, fgLocals, fgResult, bgVars, crashed,
             writeFailed, envVars, calls>>

\* A cid in its string form (c.String()), the empty string, and a string
\* that is no cid.
StrOf(c) == <<"cid", c>>
EmptyStr == <<"", Undef>>
BadStr == <<"bad", Undef>>

\* cid.Decode, lines 321 and 327: the cid of a cid string, else an error.
Decode(s) ==
    IF s[1] = "cid" /\ s[2] # Undef
      THEN [cid |-> s[2], err |-> FALSE]
      ELSE [cid |-> Undef, err |-> TRUE]

\* The chain of the remote peer: advertisement k links to advertisement k-1
\* and the first has no previous link.
RECURSIVE RemoteCid(_)
RemoteCid(k) ==
    IF k = 0 THEN Undef
    ELSE CidOf(((k - 1) % NPayloads) + 1, RemoteCid(k - 1))

RemoteNode(k) == [cid |-> RemoteCid(k), prev |-> RemoteCid(k - 1)]
AllCids == {RemoteCid(k) : k \in 1..MaxChain}
PosOf(c) == CHOOSE k \in 1..MaxChain : RemoteCid(k) = c
NodeOf(c) == RemoteNode(PosOf(c))
Held(c) == \E k \in 1..chainLen : RemoteCid(k) = c

\* What callers pass.
StartStrs == {StrOf(c) : c \in AllCids} \cup {BadStr}
EndStrs == {StrOf(c) : c \in AllCids} \cup {BadStr, EmptyStr}
Depths == 0..MaxDepth

\* selector.RecursionLimit: the zero value sets no limit; the depth Sync
\* uses when the caller gives neither depth nor end cid.
NoLimit == -1
DefaultDepth == 999999

\* Mutant: the end cid is left out of the selector when a depth is given.
SyncSelector_DepthOnly(depth, endCid) ==
    IF depth # 0 \/ endCid # Undef
      THEN [limit |-> IF depth # 0 THEN depth ELSE NoLimit,
            stop |-> IF depth # 0 THEN Undef ELSE endCid]
      ELSE [limit |-> DefaultDepth, stop |-> Undef]

\* Sync, lines 341-354: the selector built from depth and end cid.
SyncSelector(depth, endCid) ==
    IF depth # 0 \/ endCid # Undef
      THEN [limit |-> IF depth # 0 THEN depth ELSE NoLimit, stop |-> endCid]
      ELSE [limit |-> DefaultDepth, stop |-> Undef]

\* The traversal of a selector by the remote peer, reached through
\* syncer.Sync, line 357: after n blocks the node at cur is fetched when the
\* peer holds it, the recursion limit is not used up, and the link followed
\* to it is not the stop link.  The start node is reached by no link.
Visits(sel, cur, n) ==
    /\ Held(cur)
    /\ sel.limit = NoLimit \/ n < sel.limit
    /\ n > 0 => cur # sel.stop

\* The traversal may end here: nothing more to fetch, or the start node is
\* itself the stop link.
MayEnd(sel, cur, n) ==
    \/ n > 0 /\ ~Visits(sel, cur, n)
    \/ n = 0 /\ cur = sel.stop /\ Held(cur)

\* Sync, lines 357-358: what Sync returns once syncer.Sync has returned,
\* with an error (failed) or without.
SyncResult(res, failed) == [ids |-> res, err |-> FALSE]

\* The payload bytes of a stored advertisement.
PayloadOf(n) == n.cid - n.prev * NPayloads

\* lsys.Load, lines 464 and 513: the stored nodes with this cid.
Local(store, c) == {n \in store : n.cid = c}

ErrOut == [ids |-> <<>>, err |-> TRUE, payload |-> NoPayload]

\* CatCid, lines 481-497: unwrap the node and encode its payload.
CatDecode(store, c, unwrapOk) ==
    IF unwrapOk
      THEN [ids |-> <<>>, err |-> FALSE,
            payload |-> PayloadOf(CHOOSE n \in Local(store, c) : TRUE)]
      ELSE ErrOut

\* Mutant: the first synced node is checked and further nodes are ignored.
CatRemoteAccepts_FirstOnly(ids, c) == Len(ids) >= 1 /\ ids[1] = c

\* catRemote, lines 505-512: exactly one node, and the one asked for.
CatRemoteAccepts(ids, c) == Len(ids) = 1 /\ ids[1] = c

\* What the caller of Sync does with its return r: Sync's own caller gets it;
\* SyncWithProvider, lines 385-390, keeps the error; catRemote, lines 501-517,
\* and CatCid, lines 472-497, check the list and load the node.
AfterSync(op, r, store, c, loadOk, unwrapOk) ==
    IF op = "Sync" THEN [ids |-> r.ids, err |-> r.err, payload |-> NoPayload]
    ELSE IF op = "SyncWithProvider"
      THEN [ids |-> <<>>, err |-> r.err, payload |-> NoPayload]
    ELSE IF r.err \/ ~CatRemoteAccepts(r.ids, c) THEN ErrOut
    ELSE IF ~loadOk \/ Local(store, c) = {} THEN ErrOut
    ELSE CatDecode(store, c, unwrapOk)

\* Return from the call with out; its locals are gone.
SyncReturn(op, out) ==
    /\ sypc' = "idle"
    /\ syOut' = out
    /\ syStart' = Undef
    /\ syDepth' = 0
    /\ syEnd' = Undef
    /\ syCur' = Undef
    /\ syRes' = <<>>
    /\ syHonest' = TRUE

\* Sync, lines 320-340 and 356: decode the two cid strings, make the syncer
\* with the block hook, and start the traversal; x is the cid CatCid wants.
BeginSync(op, c, depth, endStr, newOk, x) ==
    LET s == Decode(c)
        e == IF endStr = EmptyStr THEN [cid |-> Undef, err |-> FALSE]
                                  ELSE Decode(endStr)
    IN /\ syOp' = op
       /\ IF s.err \/ e.err \/ ~newOk
            THEN /\ SyncReturn(op, AfterSync(op, [ids |-> <<>>, err |-> TRUE],
                                             lsys, x, FALSE, FALSE))
            ELSE /\ sypc' = "walk"
                 /\ syStart' = s.cid
                 /\ syDepth' = depth
                 /\ syEnd' = e.cid
                 /\ syCur' = s.cid
                 /\ syRes' = <<>>
                 /\ syHonest' = TRUE
                 /\ syOut' = NoOut

\* Sync, lines 320-340, called by the user.
Sync(c, depth, endStr, newOk) ==
    /\ sypc = "idle"
    /\ BeginSync("Sync", c, depth, endStr, newOk, Undef)
    /\ UNCHANGED <<engVars, lsys, chainLen>>

\* The body of the answer to GET /provider/head: Data.Cid as a string, or
\* bytes that are no JSON.
HeadBodies == StartStrs \cup {EmptyStr, <<"garbage", Undef>>}
HeadResponses ==
    {[neterr |-> TRUE, status |-> 200, body |-> EmptyStr],
     [neterr |-> FALSE, status |-> 500, body |-> EmptyStr]}
      \cup {[neterr |-> FALSE, status |-> 200, body |-> b] : b \in HeadBodies}

\* json.Unmarshal into latestSyncResJson, lines 378-383.
UnmarshalHead(body) ==
    IF body[1] = "garbage" THEN [str |-> EmptyStr, err |-> TRUE]
                           ELSE [str |-> body, err |-> FALSE]

\* SyncWithProvider, lines 373-385: ask Pando for the provider's head and
\* sync from it.
SyncWithProvider(depth, endStr, res, newOk) ==
    /\ sypc = "idle"
    /\ IF handleResError(res) \/ UnmarshalHead(res.body).err
         THEN /\ syOp' = "SyncWithProvider"
              /\ SyncReturn("SyncWithProvider", ErrOut)
         ELSE BeginSync("SyncWithProvider", UnmarshalHead(res.body).str,
                        depth, endStr, newOk, Undef)
    /\ UNCHANGED <<engVars, lsys, chainLen>>

\* CatCid, lines 463-480, and catRemote, line 501: load locally; on
\* ErrNotFound sync the one node from Pando.
CatCid(x, loadErr, unwrapOk, newOk) ==
    /\ sypc = "idle"
    /\ IF loadErr \/ Local(lsys, x) # {}
         THEN /\ syOp' = "CatCid"
              /\ SyncReturn("CatCid", IF loadErr THEN ErrOut
                                                ELSE CatDecode(lsys, x, unwrapOk))
         ELSE BeginSync("CatCid", StrOf(x), 1, EmptyStr, newOk, x)
    /\ UNCHANGED <<engVars, lsys, chainLen>>

\* blockHook, lines 334-336, while syncer.Sync runs: the next block of the
\* traversal arrives, is stored and is appended to syncRes.
SyncDeliver ==
    /\ sypc = "walk"
    /\ syHonest
    /\ Visits(SyncSelector(syDepth, syEnd), syCur, Len(syRes))
    /\ syRes' = Append(syRes, syCur)
    /\ lsys' = lsys \cup {NodeOf(syCur)}
    /\ syCur' = NodeOf(syCur).prev
    /\ UNCHANGED <<engVars, chainLen, sypc, syOp, syStart, syDepth, syEnd,
                   syHonest, syOut>>

\* blockHook, lines 334-336, with a peer that misbehaves: a block the
\* traversal did not ask for arrives and is appended all the same; up to one
\* block more than catRemote accepts.
SyncDeliverOther(c) ==
    /\ sypc = "walk"
    /\ Len(syRes) < 2
    /\ Held(c)
    /\ c # syCur \/ ~Visits(SyncSelector(syDepth, syEnd), syCur, Len(syRes))
    /\ syRes' = Append(syRes, c)
    /\ lsys' = lsys \cup {NodeOf(c)}
    /\ syCur' = NodeOf(c).prev
    /\ syHonest' = FALSE
    /\ UNCHANGED <<engVars, chainLen, sypc, syOp, syStart, syDepth, syEnd,
                   syOut>>

\* syncer.Sync, line 357, returns an error: the peer does not hold the
\* start node, or the transfer breaks at any later point.
SyncFail(loadOk, unwrapOk) ==
    /\ sypc = "walk"
    /\ SyncReturn(syOp, AfterSync(syOp, SyncResult(syRes, TRUE), lsys, syStart,
                                  loadOk, unwrapOk))
    /\ UNCHANGED <<engVars, lsys, chainLen, syOp>>

\* syncer.Sync, line 357, returns without error: the traversal is complete.
SyncDone(loadOk, unwrapOk) ==
    /\ sypc = "walk"
    /\ ~syHonest \/ MayEnd(SyncSelector(syDepth, syEnd), syCur, Len(syRes))
    /\ SyncReturn(syOp, AfterSync(syOp, SyncResult(syRes, FALSE), lsys, syStart,
                                  loadOk, unwrapOk))
    /\ UNCHANGED <<engVars, lsys, chainLen, syOp>>

\* -------------------------------------------------------------------- Next
FgNext ==
    \/ \E d \in Payloads, ok \in BOOLEAN : PublishBytesData(d, ok)
    \/ \E ok \in BOOLEAN : PublishLocalStore(ok)
    \/ \E ok \in BOOLEAN : PublishLocalLatest(ok)
    \/ \E ok \in BOOLEAN : PublishLocalList(ok)
    \/ \E ok \in BOOLEAN : PublishAnnounce(ok)
    \/ PublishInsert
    \/ PublishPersistLock
    \/ \E ok \in BOOLEAN : PublishPersistPut(ok)
    \/ \E g \in BOOLEAN, ok \in BOOLEAN : PublishLatest(g, ok)
    \/ \E b \in BOOLEAN, g \in BOOLEAN, s \in BOOLEAN : Start(b, g, s)
    \/ \E ok \in BOOLEAN : Shutdown(ok)

BgNext ==
    \/ RunCheckTick
    \/ RunCheckQuit
    \/ CheckSyncStatusNext
    \/ \E res \in Answers : CheckSyncStatusQuery(res)
    \/ RunCheckPersistLock
    \/ \E ok \in BOOLEAN : RunCheckPersistPut(ok)

Next == FgNext \/ BgNext \/ Restart

Spec == Init /\ [][Next]_vars

\* One process lifetime beside an index that at some time starts to confirm,
\* with the runCheck goroutine scheduled fairly: a tick is always delivered
\* again (time.Tick), and every step of the loop that can be taken is taken.
LiveNext == FgNext \/ BgNext \/ PandoConfirms

LiveSpec == Init /\ [][LiveNext]_vars /\ WF_vars(BgNext)

\* One process lifetime in which the runCheck goroutine is scheduled fairly,
\* the select of runCheck, which picks at random among its ready cases, does
\* not pass over the closed e.closing forever, and a Put of the check list
\* begun by Publish returns and releases the mutex.
StopSpec ==
    /\ Init /\ [][LiveNext]_vars
    /\ WF_vars(BgNext)
    /\ SF_vars(RunCheckQuit)
    /\ WF_vars(\E ok \in BOOLEAN : PublishPersistPut(ok))

\* The calls that sync from a remote peer, on an engine that publishes
\* nothing meanwhile, beside a peer holding a chain of 1..MaxChain
\* advertisements.
SyncInit ==
    /\ EngineInit
    /\ pubKind = "NoPublisher"
    /\ SyncIdle
    /\ chainLen \in 1..MaxChain

SyncNext ==
    \/ \E c \in StartStrs, d \in Depths, e \in EndStrs, ok \in BOOLEAN :
         Sync(c, d, e, ok)
    \/ \E d \in Depths, e \in EndStrs, res \in HeadResponses, ok \in BOOLEAN :
         SyncWithProvider(d, e, res, ok)
    \/ \E x \in AllCids, le \in BOOLEAN, u \in BOOLEAN, ok \in BOOLEAN :
         CatCid(x, le, u, ok)
    \/ SyncDeliver
    \/ \E c \in AllCids : SyncDeliverOther(c)
    \/ \E l \in BOOLEAN, u \in BOOLEAN : SyncFail(l, u)
    \/ \E l \in BOOLEAN, u \in BOOLEAN : SyncDone(l, u)

SyncSpec == SyncInit /\ [][SyncNext]_vars

\* ================================================================ claims

Quiet ==
    /\ Alive
    /\ fgpc = "idle"
    /\ bgpc \in {"notstarted", "select", "stopped"}

\* C1: in every reachable state every id of the check list is an element of
\* the pushed list (pending is a subset of ever-pushed), also after failed
\* publishes, reconciliation and a restart that reloads the records.
C1_PendingInHistory == checkList \subseteq Range(pushList)

C1_Witness ==
    /\ epoch > 0
    /\ checkList # {}
    /\ Range(pushList) \ checkList # {}

\* C2: within a process lifetime an id leaves the in-memory check list only
\* in the step of checkSyncStatus whose query for that id ended "included";
\* no other step of any operation removes an id.
C2_RemovedOnlyWhenIncluded ==
    [][(epoch' = epoch /\ ~(checkList \subseteq checkList'))
         => /\ bgpc = "query"
            /\ bgLast' = "included"
            /\ checkList \ checkList' = {bgC}]_vars

C2_Witness ==
    /\ bgLast = "included"
    /\ bgC \in Range(pushList)
    /\ bgC \notin checkList

\* C3 (as claimed): whenever no publish and no reconciliation batch is in
\* progress and no datastore write has failed, the three persisted records
\* equal the three in-memory records.
C3_PersistedEqualsMemory ==
    (Quiet /\ ~writeFailed)
      => /\ dsLatest = latestMeta
         /\ dsList = pushList
         /\ dsCheck = checkList

\* C4: when Publish has stored the advertisement and written the latest
\* pointer and the pushed list, and UpdateRoot fails, it returns an error
\* with the latest pointer and the end of the pushed list at the new id, in
\* memory and persisted; and no step of the call up to that return changes
\* the check list in memory or persisted.
C4_AnnounceFailureKeepsLocalState ==
    [][epoch' = epoch =>
         /\ (fgpc = "announce" /\ fgpc' = "idle" /\ publisher # "nil")
              => /\ fgResult' = [id |-> Undef, err |-> TRUE]
                 /\ latestMeta' = fgC
                 /\ dsLatest' = fgC
                 /\ pushList' # <<>> /\ Last(pushList') = fgC
                 /\ dsList' # <<>> /\ Last(dsList') = fgC
         /\ (fgpc' # fgpc /\ fgpc' \in {"store", "latest", "list", "announce", "idle"}
               /\ fgpc \in {"idle", "store", "latest", "list", "announce"})
              => UNCHANGED <<checkList, dsCheck>>]_vars

C4_Witness ==
    /\ Quiet
    /\ bgpc # "notstarted"
    /\ publisher # "nil"
    /\ fgResult = [id |-> Undef, err |-> TRUE]
    /\ latestMeta # Undef
    /\ dsLatest = latestMeta
    /\ dsList # <<>> /\ Last(dsList) = latestMeta
    /\ pushList # <<>> /\ Last(pushList) = latestMeta
    /\ latestMeta \notin checkList
    /\ latestMeta \notin dsCheck
    /\ pubRoot # latestMeta

\* C5: the advertisement a PublishBytesData call stores has as previous link
\* the latest pointer held before the call (none when undefined), and so
\* the id of the advertisement this process stored before it, also when
\* that earlier call returned an error after its store.
C5_ChainIntegrity ==
    [][/\ (fgpc = "idle" /\ fgpc' = "store") => fgPrev' = latestMeta
       /\ (fgpc = "store" /\ fgpc' = "latest")
            => /\ [cid |-> fgC', prev |-> latestMeta] \in lsys'
               /\ lastStored # Undef => fgPrev = lastStored]_vars

C5_Witness ==
    \E n \in lsys :
        /\ n.cid = lastStored
        /\ n.prev # Undef
        /\ n.prev \notin Range(dsList)

\* C6: every earlier value of the pushed list is a prefix of every later
\* one: the in-memory list within a process lifetime, and the persisted list
\* always.
C6_HistoryOnlyGrows ==
    [][/\ epoch' = epoch => IsPrefix(pushList, pushList')
       /\ IsPrefix(dsList, dsList')]_vars

C6_Witness ==
    /\ Len(dsList) = 1
    /\ Len(pushList) = 2
    /\ fgpc = "idle"

\* C7: if from some time on the index reports every queried id as included,
\* no publish is in progress, no shutdown is signalled and the loop runs,
\* then with fair scheduling of the loop the check list becomes empty and
\* stays empty.
C7_Converges ==
    <>[](/\ pando = "confirming"
         /\ Alive
         /\ fgpc = "idle"
         /\ ~closing
         /\ bgpc # "notstarted")
      => <>[](checkList = {})

C7_Witness ==
    /\ pando = "confirming"
    /\ Alive
    /\ ~closing
    /\ bgLast = "included"
    /\ Len(pushList) > 1
    /\ checkList = {}

\* C8 (as claimed): after a query that ends in anything but "included" the
\* loop runs on with the next id (or the persist step), the queried id is
\* still in the check list and is not queried again in this tick.
C8_EveryFailureIsSkipped ==
    [][(epoch' = epoch /\ bgpc = "query" /\ bgLast' \notin {"none", "included"})
         => /\ crashed' = "none"
            /\ bgpc' \in {"check", "persist"}
            /\ bgC \in checkList'
            /\ bgC \notin bgMap']_vars

\* C9: once e.closing is closed the loop issues at most one more inclusion
\* query.
C9_AtMostOneQueryAfterClose == queriesAfterClose <= 1

C9_Witness ==
    /\ closing
    /\ queriesAfterClose = 1
    /\ bgpc = "check"
    /\ bgMap # {}

\* C10 (as claimed): with NoPublisher, Start does not crash whether or not
\* a latest pointer is stored, PublishLatest of an engine that was started
\* does not crash, and Publish returns the new id and leaves the check list
\* alone.
C10_DisabledIsNoOp ==
    [][pubKind = "NoPublisher" =>
         /\ crashed' # "SetRoot on nil publisher"
         /\ bgpc # "notstarted" => crashed' # "UpdateRoot on nil publisher"
         /\ (epoch' = epoch /\ fgpc = "announce" /\ fgpc' = "idle")
              => /\ fgResult' = [id |-> fgC, err |-> FALSE]
                 /\ checkList' = checkList]_vars

\* C11 (as claimed): a PublishLatest call leaves the latest pointer, the
\* pushed list and the check list alone, in memory and persisted, and
\* completes; with no advertisement ever stored it returns an error and the
\* publisher's root is untouched; otherwise, when it returns no error, the
\* publisher's root and the returned id are the stored latest pointer.
C11_PublishLatestOnlyAnnounces ==
    [][(\E g \in BOOLEAN, ok \in BOOLEAN : PublishLatest(g, ok)) =>
         /\ UNCHANGED <<memVars, dsVars>>
         /\ crashed' = "none"
         /\ lsys = {} => (fgResult'.err /\ pubRoot' = pubRoot)
         /\ (lsys # {} /\ ~fgResult'.err)
              => (pubRoot' = dsLatest /\ fgResult'.id = dsLatest)]_vars

\* C15 (as claimed): the check-list mutex is not held while a datastore Put
\* of the check list is in progress, in the foreground or in the background,
\* nor while an inclusion query is in progress.
C15_MutexFreeDuringIO ==
    /\ fgpc = "put" => checkMutex # "fg"
    /\ bgpc = "put" => checkMutex # "bg"
    /\ bgpc = "query" => checkMutex # "bg"

\* The order of the steps of one Publish call.
PublishSteps ==
    {<<"idle", "store">>, <<"store", "latest">>, <<"latest", "list">>,
     <<"list", "announce">>, <<"announce", "insert">>, <<"insert", "persist">>,
     <<"persist", "put">>}

\* C16: within a process lifetime the foreground moves only along the order
\* store, latest pointer, pushed list, UpdateRoot, check-list insertion,
\* check-list Put, or returns; each record changes only in its own step, and
\* the step is reached only when every earlier one has left its effect (the
\* node stored, then the persisted pointer at the new id, then the persisted
\* list ending with it, then the publisher's root at it); an id enters the
\* check list only in the insertion step, with the publisher's root at that
\* id and the id in the persisted pushed list; and every id of the check
\* list is in the persisted pushed list.
C16_PublishOrder ==
    /\ [](checkList \subseteq Range(dsList))
    /\ [][epoch' = epoch =>
            /\ fgpc' # fgpc => (fgpc' = "idle" \/ <<fgpc, fgpc'>> \in PublishSteps)
            /\ lsys' # lsys => fgpc = "store"
            /\ (latestMeta' # latestMeta \/ dsLatest' # dsLatest)
                 => (fgpc = "latest" /\ fgC \in {n.cid : n \in lsys})
            /\ (pushList' # pushList \/ dsList' # dsList)
                 => (fgpc = "list" /\ dsLatest = fgC /\ latestMeta = fgC)
            /\ (fgpc # "idle" /\ pubRoot' # pubRoot)
                 => (fgpc = "announce" /\ dsList # <<>> /\ Last(dsList) = fgC)
            /\ ~(checkList' \subseteq checkList)
                 => /\ fgpc = "insert"
                    /\ checkList' = checkList \cup {fgC}
                    /\ pubRoot = fgC
                    /\ fgC \in Range(dsList)
            /\ (dsCheck' # dsCheck /\ fgpc' # fgpc)
                 => (fgpc = "put" /\ pubRoot = fgC /\ fgC \in Range(dsList))]_vars

C16_Witness ==
    /\ fgpc = "put"
    /\ fgC \in checkList
    /\ pubRoot = fgC
    /\ Last(dsList) = fgC
    /\ dsLatest = fgC
    /\ Len(dsList) = 2

\* C18: a tick of runCheck that finds the check list empty changes nothing:
\* the three records in memory and in the datastore and the loop's own state
\* stay as they are, so the loop is back at its select; and the loop leaves
\* the select for a batch only with a non-empty check list, which it copies.
C18_EmptyTickIsNoOp ==
    [][/\ (RunCheckTick /\ Cardinality(checkList) = 0)
            => UNCHANGED <<dsVars, memVars, bgVars, writeFailed>>
       /\ (epoch' = epoch /\ bgpc = "select" /\ bgpc' \notin {"select", "stopped"})
            => (checkList # {} /\ bgpc' = "check" /\ bgMap' = checkList)]_vars

C18_Witness ==
    /\ Alive
    /\ bgpc = "select"
    /\ checkMutex = "free"
    /\ ~closing
    /\ checkList = {}
    /\ dsCheck # {}

\* C19: an id that Publish inserts while a batch of checkSyncStatus is under
\* way is not among the ids the batch still has to query, and the batch
\* removes from the check list only the id it has just queried and found
\* included, so it does not remove the inserted id; every write of the check
\* list stores the whole in-memory list of that moment; and whenever neither
\* a batch nor a foreground persistence is under way and no Put has failed
\* in this process lifetime, every id of the in-memory check list is in the
\* persisted one.
C19_InsertionSurvivesBatch ==
    /\ []((Alive /\ ~writeFailed /\ fgpc \notin {"persist", "put"}
              /\ bgpc \in {"notstarted", "select", "stopped"})
            => checkList \subseteq dsCheck)
    /\ [][epoch' = epoch =>
            /\ (fgpc = "insert" /\ fgpc' = "persist" /\ bgpc \in {"check", "query"})
                 => (fgC \notin bgMap \cup {bgC} /\ fgC \in checkList')
            /\ \A id \in checkList \ checkList' :
                 bgpc = "query" /\ id = bgC /\ bgLast' = "included"
            /\ dsCheck' # dsCheck => dsCheck' = checkList]_vars

C19_Witness ==
    /\ bgpc = "check"
    /\ bgLast = "none"
    /\ bgMap # {}
    /\ fgpc = "put"
    /\ fgC \in checkList
    /\ fgC \notin bgMap

\* C20 (as claimed): whenever no Publish call is under way, also after one
\* that returned an error for a failed Put, the in-memory latest pointer is
\* the persisted one.
C20_LatestInMemoryIsPersisted ==
    (Alive /\ fgpc = "idle") => latestMeta = dsLatest

\* C17 (as claimed): once e.closing is closed and runCheck has been started,
\* the loop reaches its return ("stopped"), whatever ticks arrive and
\* whatever the check list holds.
C17_ShutdownStopsLoop ==
    (closing /\ bgpc # "notstarted") ~> (bgpc = "stopped")

\* C12: a CatCid call that finds the cid in the link system returns without
\* starting a sync; one that does not find it (and whose Load gave no other
\* error) starts a sync from that cid with depth 1 and no end cid, or returns
\* an error when the syncer cannot be made; and when that sync has returned,
\* CatCid returns a payload only if the sync recorded exactly one node with
\* the cid asked for, the payload being that node's, and returns an error
\* and no payload for zero nodes, more than one, or another cid.
C12_CatCidLocalOrOneNode ==
    [][/\ \A x \in AllCids :
            (\E le \in BOOLEAN, u \in BOOLEAN, ok \in BOOLEAN : CatCid(x, le, u, ok))
              => /\ Local(lsys, x) # {} => (sypc' = "idle" /\ lsys' = lsys)
                 /\ sypc' = "walk"
                      => /\ Local(lsys, x) = {}
                         /\ syCur' = x /\ syStart' = x /\ syRes' = <<>>
                         /\ SyncSelector(syDepth', syEnd')
                              = [limit |-> 1, stop |-> Undef]
                 /\ (Local(lsys, x) = {} /\ sypc' = "idle") => syOut' = ErrOut
                 /\ (sypc' = "idle" /\ ~syOut'.err)
                      => syOut'.payload = PayloadOf(NodeOf(x))
       /\ (syOp = "CatCid" /\ sypc = "walk" /\ sypc' = "idle")
            => /\ syRes # <<syStart>> => syOut' = ErrOut
               /\ ~syOut'.err => syOut'.payload = PayloadOf(NodeOf(syStart))
               /\ syOut'.err => syOut'.payload = NoPayload
       /\ (syOp = "CatCid" /\ sypc = "walk") => sypc' \in {"walk", "idle"}]_vars

C12_Witness ==
    /\ syOp = "CatCid"
    /\ sypc = "walk"
    /\ Len(syRes) = 1
    /\ syRes[1] # syStart
    /\ Local(lsys, syStart) = {}

\* C13 (as claimed): when syncer.Sync returns an error, Sync returns that
\* error and no cid list, also when blocks had arrived before, and
\* SyncWithProvider returns the error.
C13_SyncFailureIsReturned ==
    [][((\E l \in BOOLEAN, u \in BOOLEAN : SyncFail(l, u))
          /\ syOp \in {"Sync", "SyncWithProvider"})
         => (syOut'.err /\ syOut'.ids = <<>>)]_vars

\* The cids an honest traversal from start records, in visitation order.
Visited(ids, start) ==
    \A i \in 1..Len(ids) :
        /\ i <= PosOf(start)
        /\ ids[i] = RemoteCid(PosOf(start) - i + 1)

\* C14 (as claimed): when Sync returns after a traversal of the peer's chain,
\* the list holds cids of the chain in visitation order from the start cid;
\* with depth d > 0 and no end cid at most d of them; with an end cid none
\* that is the end cid or older; with depth 0 and no end cid, and the
\* traversal complete, the whole chain from the start cid back, up to
\* 999999 nodes.
C14_SyncBounds ==
    [][(syOp = "Sync" /\ sypc = "walk" /\ sypc' = "idle" /\ syHonest)
         => /\ Visited(syOut'.ids, syStart)
            /\ (syDepth > 0 /\ syEnd = Undef) => Len(syOut'.ids) <= syDepth
            /\ syEnd # Undef
                 => \A i \in 1..Len(syOut'.ids) :
                        PosOf(syOut'.ids[i]) > PosOf(syEnd)
            /\ (syDepth = 0 /\ syEnd = Undef
                  /\ \E l \in BOOLEAN, u \in BOOLEAN : SyncDone(l, u))
                 => Len(syOut'.ids) = IF PosOf(syStart) < DefaultDepth
                                        THEN PosOf(syStart) ELSE DefaultDepth]_vars

\* C14 (amended): the same, the end cid bounding the walk when it is older
\* than the start cid, so that the traversal meets it on a link it follows.
C14_SyncBoundsFromNewerStart ==
    [][(syOp = "Sync" /\ sypc = "walk" /\ sypc' = "idle" /\ syHonest)
         => /\ Visited(syOut'.ids, syStart)
            /\ (syDepth > 0 /\ syEnd = Undef) => Len(syOut'.ids) <= syDepth
            /\ (syEnd # Undef /\ PosOf(syEnd) < PosOf(syStart))
                 => \A i \in 1..Len(syOut'.ids) :
                        PosOf(syOut'.ids[i]) > PosOf(syEnd)
            /\ (syDepth = 0 /\ syEnd = Undef
                  /\ \E l \in BOOLEAN, u \in BOOLEAN : SyncDone(l, u))
                 => Len(syOut'.ids) = IF PosOf(syStart) < DefaultDepth
                                        THEN PosOf(syStart) ELSE DefaultDepth]_vars

C14_Witness ==
    /\ syOp = "Sync"
    /\ sypc = "walk"
    /\ syHonest
    /\ syDepth > 0
    /\ syEnd # Undef
    /\ syCur = syEnd
    /\ Len(syRes) = 2
    /\ Len(syRes) < syDepth

====
